---------------------------- MODULE Spec2Model ----------------------------
(***************************************************************************)
(* Model of ai-reviewer/ai_reviewer.py: the diff line mapper               *)
(* (get_valid_lines), the model-output validator (clean_json_text and the  *)
(* parsing loop of analyze_file), the description merge of                 *)
(* update_pr_description and the four stages of main.                      *)
(*                                                                         *)
(* Text is a sequence of one-character strings.  A line of a patch is such *)
(* a sequence; a patch is the sequence of its lines, i.e. the value of     *)
(* patch.split('\n') (the empty string is the patch of one empty line).    *)
(* The token LongRun stands for RunLen consecutive 'x' characters, so that *)
(* a patch of tens of thousands of characters stays a short sequence.      *)
(***************************************************************************)
EXTENDS Integers, Sequences, FiniteSets, TLC

(***************************************************************************)
(* Bounds of the model.                                                    *)
(***************************************************************************)
MaxPatchLines == 3
MaxItems == 2
MaxFiles == 3
MaxDocLen == 2
MaxSummaryLen == 2
MaxRuns == 2
RunLen == 29900

(***************************************************************************)
(* Strings.                                                                *)
(***************************************************************************)
LongRun == "x..x"

CharLen(c) == IF c = LongRun THEN RunLen ELSE 1

RECURSIVE StrLen(_)
StrLen(s) == IF s = <<>> THEN 0 ELSE CharLen(Head(s)) + StrLen(Tail(s))

StartsWith(s, p) == Len(s) >= Len(p) /\ SubSeq(s, 1, Len(p)) = p

StartsWithAt(s, p, i) ==
    /\ i + Len(p) - 1 <= Len(s)
    /\ SubSeq(s, i, i + Len(p) - 1) = p

EndsWith(s, p) ==
    Len(s) >= Len(p) /\ SubSeq(s, Len(s) - Len(p) + 1, Len(s)) = p

Contains(s, p) == \E i \in 1..(Len(s) + 1) : StartsWithAt(s, p, i)

Digits == {"0", "1", "2", "3", "4", "5", "6", "7", "8", "9"}

DigitVal(c) ==
    CASE c = "0" -> 0 [] c = "1" -> 1 [] c = "2" -> 2 [] c = "3" -> 3
      [] c = "4" -> 4 [] c = "5" -> 5 [] c = "6" -> 6 [] c = "7" -> 7
      [] c = "8" -> 8 [] c = "9" -> 9

RECURSIVE DecimalValue(_, _)
DecimalValue(ds, acc) ==
    IF ds = <<>> THEN acc
    ELSE DecimalValue(Tail(ds), 10 * acc + DigitVal(Head(ds)))

(***************************************************************************)
(* get_valid_lines.                                                        *)
(***************************************************************************)
\* re.search(r'\+(\d+)', line): the leftmost '+' that a digit follows, and
\* the longest run of digits after it.  0 when there is no match, else the
\* index of the '+'.
PlusDigitsAt(line) ==
    LET hits == {i \in 1..(Len(line) - 1) :
                    line[i] = "+" /\ line[i + 1] \in Digits}
    IN IF hits = {} THEN 0
       ELSE CHOOSE i \in hits : \A j \in hits : i <= j

\* match.group(1) converted by int().
HunkStart(line) ==
    LET i == PlusDigitsAt(line)
        last == CHOOSE e \in (i + 1)..Len(line) :
                    /\ \A k \in (i + 1)..e : line[k] \in Digits
                    /\ (e = Len(line) \/ line[e + 1] \notin Digits)
    IN DecimalValue(SubSeq(line, i + 1, last), 0)

\* One iteration of the loop over patch.split('\n'); st is the pair of the
\* locals valid_lines and current_line_num.
ScanLine(st, line) ==
    IF StartsWith(line, <<"@", "@">>)
    THEN IF PlusDigitsAt(line) # 0
         THEN [st EXCEPT !.current_line_num = HunkStart(line)]
         ELSE st
    ELSE IF StartsWith(line, <<" ">>) \/ StartsWith(line, <<"+">>)
         THEN [valid_lines |-> st.valid_lines \cup {st.current_line_num},
               current_line_num |-> st.current_line_num + 1]
         ELSE st

RECURSIVE ScanLines(_, _)
ScanLines(st, lines) ==
    IF lines = <<>> THEN st
    ELSE ScanLines(ScanLine(st, Head(lines)), Tail(lines))

\* A patch is [present, lines]: present = FALSE is Python's None, and lines
\* is patch.split('\n').  "not patch" holds of None and of the empty string.
NoPatch == [present |-> FALSE, lines |-> <<>>]

PatchOf(lines) == [present |-> TRUE, lines |-> lines]

IsFalsyPatch(patch) == ~patch.present \/ patch.lines = << <<>> >>

get_valid_lines(patch) ==
    IF IsFalsyPatch(patch) THEN {}
    ELSE ScanLines([valid_lines |-> {}, current_line_num |-> 0],
                   patch.lines).valid_lines

\* len(patch): the characters of the lines and the '\n' between them.
RECURSIVE SumLen(_)
SumLen(lines) ==
    IF lines = <<>> THEN 0 ELSE StrLen(Head(lines)) + SumLen(Tail(lines))

PatchLen(patch) == SumLen(patch.lines) + (Len(patch.lines) - 1)

(***************************************************************************)
(* Model output.  The model's reply is a text and the value of the JSON    *)
(* document in it.  In the text the tokens Fence (three backquotes),       *)
(* JsonTag (the language tag "json"), Word (any other word) and DocText    *)
(* (the text of the JSON document) each stand for their characters.        *)
(*                                                                         *)
(* JSON values are records with a kind k: "int" (n), "float" (a finite     *)
(* real, n its truncation, which is what int() returns), "inf" (the        *)
(* literal Infinity), "bool" (n), "null", "str" (s, its characters),       *)
(* "list" (items) and "dict" (fields, a record of its keys).               *)
(***************************************************************************)
Fence == "<fence>"
JsonTag == "json"
Word == "word"
DocText == "{json}"
Whitespace == {" ", "\n"}

JInt(n) == [k |-> "int", n |-> n]
JFloat(n) == [k |-> "float", n |-> n]
JInf == [k |-> "inf"]
JBool(n) == [k |-> "bool", n |-> n]
JNull == [k |-> "null"]
JStr(s) == [k |-> "str", s |-> s]
JList(items) == [k |-> "list", items |-> items]
JDict(fields) == [k |-> "dict", fields |-> fields]

\* str.strip().
RECURSIVE LStrip(_)
LStrip(text) ==
    IF text # <<>> /\ Head(text) \in Whitespace THEN LStrip(Tail(text))
    ELSE text

RECURSIVE RStrip(_)
RStrip(text) ==
    IF text # <<>> /\ text[Len(text)] \in Whitespace
    THEN RStrip(SubSeq(text, 1, Len(text) - 1))
    ELSE text

Strip(text) == RStrip(LStrip(text))

\* Lines 63-64: text[7:] cuts the fence and the tag "json".
CutJsonFence(text) ==
    IF StartsWith(text, <<Fence, JsonTag>>) THEN SubSeq(text, 3, Len(text))
    ELSE text

\* Lines 65-66: text[3:] cuts a fence.
CutFence(text) ==
    IF StartsWith(text, <<Fence>>) THEN SubSeq(text, 2, Len(text)) ELSE text

\* Lines 67-68: text[:-3] cuts a closing fence.
CutClosingFence(text) ==
    IF EndsWith(text, <<Fence>>) THEN SubSeq(text, 1, Len(text) - 1)
    ELSE text

clean_json_text(text) ==
    Strip(CutClosingFence(CutFence(CutJsonFence(Strip(text)))))

\* json.loads: one document, whitespace allowed around it; anything else
\* raises JSONDecodeError.
LoadStripped(text, value) ==
    IF text = <<DocText>>
    THEN [exc |-> "none", value |-> value]
    ELSE [exc |-> "JSONDecodeError", value |-> JNull]

json_loads(text, value) == LoadStripped(Strip(text), value)

(***************************************************************************)
(* The operations of the parsing loop on a JSON value, each with the       *)
(* exception Python raises.                                                *)
(***************************************************************************)
KeyLine == <<"l", "i", "n", "e">>
KeyMessage == <<"m", "e", "s", "s", "a", "g", "e">>

\* key in item: a key of a dict, an element of a list, a substring of a
\* str; TypeError for a value that is no container.
HasKey(item, name, chars) ==
    CASE item.k = "dict" -> [exc |-> "none", b |-> name \in DOMAIN item.fields]
      [] item.k = "list" ->
            [exc |-> "none",
             b |-> \E i \in 1..Len(item.items) : item.items[i] = JStr(chars)]
      [] item.k = "str" -> [exc |-> "none", b |-> Contains(item.s, chars)]
      [] OTHER -> [exc |-> "TypeError", b |-> FALSE]

\* item['line']: a list or a str takes no string index.
GetLine(item) ==
    IF item.k = "dict"
    THEN [exc |-> "none", value |-> item.fields.line]
    ELSE [exc |-> "TypeError", value |-> JNull]

\* int(str): optional surrounding blanks, an optional sign, then digits.
IntOfDigits(negative, ds) ==
    IF ds # <<>> /\ \A i \in 1..Len(ds) : ds[i] \in Digits
    THEN [exc |-> "none",
          n |-> IF negative THEN 0 - DecimalValue(ds, 0)
                ELSE DecimalValue(ds, 0)]
    ELSE [exc |-> "ValueError", n |-> 0]

IntOfSigned(s) ==
    IF s # <<>> /\ Head(s) \in {"-", "+"}
    THEN IntOfDigits(Head(s) = "-", Tail(s))
    ELSE IntOfDigits(FALSE, s)

IntOfStr(s) == IntOfSigned(Strip(s))

\* int(value).
IntOf(v) ==
    CASE v.k \in {"int", "float", "bool"} -> [exc |-> "none", n |-> v.n]
      [] v.k = "str" -> IntOfStr(v.s)
      [] v.k = "inf" -> [exc |-> "OverflowError", n |-> 0]
      [] OTHER -> [exc |-> "TypeError", n |-> 0]

\* item.get(key, default)
DictGet(item, name, default) ==
    IF name \in DOMAIN item.fields THEN item.fields[name] ELSE default

(***************************************************************************)
(* call_llm.  The collaborator's outcome is "raise" (the request raises),  *)
(* "none" (message.content is None, so .strip() raises AttributeError) or  *)
(* "text" (content).  Both exceptions are caught and None is returned:     *)
(* is_none.                                                                *)
(***************************************************************************)
LlmRaises == [kind |-> "raise", text |-> <<>>, value |-> JNull]

LlmNone == [kind |-> "none", text |-> <<>>, value |-> JNull]

LlmText(text, value) == [kind |-> "text", text |-> text, value |-> value]

call_llm(outcome) ==
    IF outcome.kind = "text"
    THEN [is_none |-> FALSE, text |-> Strip(outcome.text)]
    ELSE [is_none |-> TRUE, text |-> <<>>]

(***************************************************************************)
(* analyze_file.                                                           *)
(***************************************************************************)
IGNORED_EXTENSIONS ==
    << <<".", "p", "n", "g">>, <<".", "j", "p", "g">>,
       <<".", "j", "p", "e", "g">>, <<".", "s", "v", "g">>,
       <<".", "j", "s", "o", "n">>, <<".", "l", "o", "c", "k">>,
       <<".", "p", "b", "x", "p", "r", "o", "j">>, <<".", "x", "i", "b">>,
       <<".", "s", "t", "o", "r", "y", "b", "o", "a", "r", "d">> >>

\* The early returns without the test of the extension (line 99), for
\* comparison.
IsFilteredByStatusOnly(file) ==
    \/ file.status = "removed"
    \/ ~file.patch.present

\* Lines 96 and 99: the two early returns.
IsFiltered(file) ==
    \/ file.status = "removed"
    \/ ~file.patch.present
    \/ \E i \in 1..Len(IGNORED_EXTENSIONS) :
          EndsWith(file.filename, IGNORED_EXTENSIONS[i])

\* except ValueError around int(item['line']).
InnerHandlerCatches(exc) == exc = "ValueError"

\* The handlers without "except Exception" (line 172), for comparison.
OuterHandlerCatchesJsonOnly(exc) == exc = "JSONDecodeError"

\* except json.JSONDecodeError and except Exception around the loop.
OuterHandlerCatches(exc) ==
    exc \in {"JSONDecodeError", "TypeError", "ValueError", "OverflowError"}

\* The category of an issue (two Hangul characters in the source) and the
\* default category label, each written as one token.
Issue == <<"issue_ko">>

DefaultCategory == <<"review_ko">>

\* Lines 158-160: the two icons.
CategoryIcon(category) == IF category = JStr(Issue) THEN "warning" ELSE "bulb"

SeverityIcon(severity) ==
    IF severity = JStr(<<"Critical">>) THEN "fire"
    ELSE IF severity = JStr(<<"Major">>) THEN "red"
    ELSE "yellow"

\* Lines 158-168: the comment of an item that passed the checks.
FormatComment(item, line_num, filename) ==
    [path |-> filename,
     line |-> line_num,
     body |-> [icon |-> CategoryIcon(DictGet(item, "category", JNull)),
               category |-> DictGet(item, "category", JStr(DefaultCategory)),
               severity_icon |->
                   SeverityIcon(DictGet(item, "severity", JStr(<<"Minor">>))),
               severity |-> DictGet(item, "severity", JStr(<<"Minor">>)),
               message |-> item.fields.message]]

\* The result of one iteration of "for item in data": exc is the exception
\* that leaves the iteration ("none": it ended or continued), keep whether a
\* comment was appended, skip the line numbers printed as outside the diff
\* (line 154).
Continue == [exc |-> "none", keep |-> FALSE, comment |-> <<>>, skip |-> <<>>]

Raise(exc) == [exc |-> exc, keep |-> FALSE, comment |-> <<>>, skip |-> <<>>]

OutOfRange(line_num) ==
    [exc |-> "none", keep |-> FALSE, comment |-> <<>>, skip |-> <<line_num>>]

\* Lines 148-168 without the test of line 153, for comparison.
ItemWithLineUnchecked(item, num, valid_lines, filename) ==
    IF num.exc # "none"
    THEN IF InnerHandlerCatches(num.exc) THEN Continue ELSE Raise(num.exc)
    ELSE [exc |-> "none", keep |-> TRUE,
          comment |-> FormatComment(item, num.n, filename), skip |-> <<>>]

\* Lines 148-168, num being the result of int(item['line']).
ItemWithLine(item, num, valid_lines, filename) ==
    IF num.exc # "none"
    THEN IF InnerHandlerCatches(num.exc) THEN Continue ELSE Raise(num.exc)
    ELSE IF num.n \notin valid_lines THEN OutOfRange(num.n)
    ELSE [exc |-> "none", keep |-> TRUE,
          comment |-> FormatComment(item, num.n, filename), skip |-> <<>>]

\* Line 149, got being the result of item['line'].
ItemWithValue(item, got, valid_lines, filename) ==
    IF got.exc # "none" THEN Raise(got.exc)
    ELSE ItemWithLine(item, IntOf(got.value), valid_lines, filename)

\* Line 146, hasLine and hasMessage being the results of the two tests.
ItemWithKeys(item, hasLine, hasMessage, valid_lines, filename) ==
    IF hasLine.exc # "none" THEN Raise(hasLine.exc)
    ELSE IF ~hasLine.b THEN Continue
    ELSE IF hasMessage.exc # "none" THEN Raise(hasMessage.exc)
    ELSE IF ~hasMessage.b THEN Continue
    ELSE ItemWithValue(item, GetLine(item), valid_lines, filename)

ItemStep(item, valid_lines, filename) ==
    ItemWithKeys(item, HasKey(item, "line", KeyLine),
                 HasKey(item, "message", KeyMessage), valid_lines, filename)

\* The loop: the comments appended so far survive an exception.  acc holds the
\* list comments and the skips printed.
NoComments == [comments |-> <<>>, skips |-> <<>>]

RECURSIVE ProcessItems(_, _, _, _)
LoopAfter(step, rest, valid_lines, filename, acc) ==
    IF step.exc # "none"
    THEN [exc |-> step.exc, comments |-> acc.comments, skips |-> acc.skips]
    ELSE ProcessItems(rest, valid_lines, filename,
                      [comments |-> IF step.keep
                                    THEN Append(acc.comments, step.comment)
                                    ELSE acc.comments,
                       skips |-> acc.skips \o step.skip])

ProcessItems(items, valid_lines, filename, acc) ==
    IF items = <<>>
    THEN [exc |-> "none", comments |-> acc.comments, skips |-> acc.skips]
    ELSE LoopAfter(ItemStep(Head(items), valid_lines, filename), Tail(items),
                   valid_lines, filename, acc)

\* What "for item in data" iterates over, after a dict was wrapped in a list
\* (line 143): the elements of a list, the characters of a str; TypeError
\* otherwise.
Iterate(data) ==
    CASE data.k = "dict" -> [exc |-> "none", items |-> <<data>>]
      [] data.k = "list" -> [exc |-> "none", items |-> data.items]
      [] data.k = "str" ->
            [exc |-> "none",
             items |-> [i \in 1..Len(data.s) |-> JStr(<<data.s[i]>>)]]
      [] OTHER -> [exc |-> "TypeError", items |-> <<>>]

\* Lines 145-168.
LoopOver(iter, valid_lines, filename) ==
    IF iter.exc # "none"
    THEN [exc |-> iter.exc, comments |-> <<>>, skips |-> <<>>]
    ELSE ProcessItems(iter.items, valid_lines, filename, NoComments)

\* Lines 141-168: the body of the try.
TryBody(loaded, valid_lines, filename) ==
    IF loaded.exc # "none"
    THEN [exc |-> loaded.exc, comments |-> <<>>, skips |-> <<>>]
    ELSE LoopOver(Iterate(loaded.value), valid_lines, filename)

\* Lines 170-175: the two handlers and the return.
ReturnAfterTry(tried, returned_patch) ==
    IF tried.exc # "none" /\ ~OuterHandlerCatches(tried.exc)
    THEN [comments |-> <<>>, patch |-> NoPatch, calls |-> 1,
          skips |-> tried.skips, diag |-> "none", escaped |-> tried.exc]
    ELSE [comments |-> tried.comments, patch |-> returned_patch, calls |-> 1,
          skips |-> tried.skips,
          diag |-> IF tried.exc = "none" THEN "ok"
                   ELSE IF tried.exc = "JSONDecodeError" THEN "json_failed"
                   ELSE "error",
          escaped |-> "none"]

\* Lines 139-175.
ParseAndValidate(response_text, value, valid_lines, file) ==
    ReturnAfterTry(
        TryBody(json_loads(clean_json_text(response_text), value),
                valid_lines, file.filename),
        file.patch)

\* Lines 135-175, response being what call_llm returned.
AfterModelCall(file, response, value) ==
    IF response.is_none \/ response.text = <<>>
    THEN [comments |-> <<>>, patch |-> file.patch, calls |-> 1,
          skips |-> <<>>,
          diag |-> IF response.is_none THEN "llm_failed" ELSE "empty",
          escaped |-> "none"]
    ELSE ParseAndValidate(response.text, value, get_valid_lines(file.patch),
                          file)

\* analyze_file(client, file): outcome is what the model call does.  The
\* result holds the pair returned (comments, patch), the number of model
\* calls made (calls), the line numbers printed as outside the diff (skips),
\* the diagnostic printed at the end (diag) and the exception that leaves the
\* function (escaped, "none" when it returns).
analyze_file(file, outcome) ==
    IF IsFiltered(file)
    THEN [comments |-> <<>>, patch |-> NoPatch, calls |-> 0,
          skips |-> <<>>, diag |-> "skipped", escaped |-> "none"]
    ELSE AfterModelCall(file, call_llm(outcome), outcome.value)

(***************************************************************************)
(* update_pr_description: the merge of the summary into the PR body.       *)
(***************************************************************************)
\* Lines 215 and 216: both markers are the empty string.
marker_start == <<>>

marker_end == <<>>

\* The line "## ... AI summary (<model>)" of the section, in one token.
HeadingLine == "## AI (LLM_MODEL)"

\* Line 219.
NewSection(summary_text) ==
    marker_start \o <<"\n", HeadingLine, "\n", "\n">> \o summary_text
        \o <<"\n">> \o marker_end

\* The replacement string of pattern.sub is a template: "\\" gives one
\* backslash, "\n" a newline, a backslash before another ASCII letter or a
\* digit (no group exists) or at the end raises re.error, and a backslash
\* before any other character stays.
Letters == {"x", "y"}

RECURSIVE ExpandTemplate(_, _)
ExpandTemplate(template, acc) ==
    IF template = <<>> THEN [exc |-> "none", text |-> acc]
    ELSE IF Head(template) # "\\"
         THEN ExpandTemplate(Tail(template), Append(acc, Head(template)))
    ELSE IF Len(template) = 1 THEN [exc |-> "re.error", text |-> <<>>]
    ELSE LET c == template[2]
             rest == SubSeq(template, 3, Len(template))
         IN IF c = "\\" THEN ExpandTemplate(rest, Append(acc, "\\"))
            ELSE IF c = "n" THEN ExpandTemplate(rest, Append(acc, "\n"))
            ELSE IF c \in Letters \cup Digits
                 THEN [exc |-> "re.error", text |-> <<>>]
            ELSE ExpandTemplate(rest, acc \o <<"\\", c>>)

\* The pattern re.escape(start) + ".*?" + re.escape(end) with DOTALL, tried
\* at offset b (0-based) with ".*?" taking the characters up to offset k: the
\* end offset of the shortest match that does not end at forbid, or -1.
RECURSIVE LazyEndFrom(_, _, _, _)
LazyEndFrom(doc, end, k, forbid) ==
    IF k > Len(doc) THEN -1
    ELSE IF StartsWithAt(doc, end, k + 1) /\ k + Len(end) # forbid
         THEN k + Len(end)
         ELSE LazyEndFrom(doc, end, k + 1, forbid)

MatchEndAt(doc, start, end, b, forbid) ==
    IF StartsWithAt(doc, start, b + 1)
    THEN LazyEndFrom(doc, end, b + Len(start), forbid)
    ELSE -1

\* The search of the next match from offset pos, one start offset after the
\* other: an empty match at pos is refused when the previous match was empty
\* (must_advance), and only there.
RECURSIVE SearchFrom(_, _, _, _, _)
SearchTried(doc, start, end, pos, e) ==
    IF e # -1 THEN [found |-> TRUE, b |-> pos, e |-> e]
    ELSE SearchFrom(doc, start, end, pos + 1, FALSE)

SearchFrom(doc, start, end, pos, must_advance) ==
    IF pos > Len(doc) THEN [found |-> FALSE, b |-> 0, e |-> 0]
    ELSE SearchTried(doc, start, end, pos,
                     MatchEndAt(doc, start, end, pos,
                                IF must_advance THEN pos ELSE -1))

\* pattern.sub(repl, doc) from offset pos: every match, left to right, is
\* replaced, and the text between the matches is kept.
RECURSIVE SubAll(_, _, _, _, _, _)
SubFound(doc, start, end, repl, pos, m) ==
    IF ~m.found THEN SubSeq(doc, pos + 1, Len(doc))
    ELSE SubSeq(doc, pos + 1, m.b) \o repl
             \o SubAll(doc, start, end, repl, m.e, m.e = m.b)

SubAll(doc, start, end, repl, pos, must_advance) ==
    SubFound(doc, start, end, repl, pos,
             SearchFrom(doc, start, end, pos, must_advance))

\* Lines 223-224, repl being the expanded template.
Substitute(current_body, repl) ==
    IF repl.exc # "none" THEN [exc |-> repl.exc, body |-> <<>>]
    ELSE [exc |-> "none",
          body |-> SubAll(current_body, marker_start, marker_end, repl.text,
                          0, FALSE)]

\* Lines 222-226: final_body, or the exception pattern.sub raises.
MergeDescription(current_body, new_section) ==
    IF Contains(current_body, marker_start) /\ Contains(current_body, marker_end)
    THEN Substitute(current_body, ExpandTemplate(new_section, <<>>))
    ELSE [exc |-> "none", body |-> new_section \o <<"\n", "\n">> \o current_body]

(***************************************************************************)
(* The stages after the loop.  A collaborator's call either returns or     *)
(* raises; each of the three functions catches Exception around its call.  *)
(* escaped is the exception that leaves the function, "none" when it       *)
(* returns.                                                                *)
(***************************************************************************)
\* A handler that catches nothing, for comparison.
CatchesNothing(exc) == FALSE

\* except Exception, lines 194, 230 and 260.
StageHandlerCatches(exc) ==
    exc \in {"GithubException", "re.error", "RequestException"}

Escaping(raises, exc) ==
    IF raises /\ ~StageHandlerCatches(exc) THEN exc ELSE "none"

\* post_review_comments(pr, last_commit, comments); raises: pr.create_review
\* raises.
post_review_comments(review_comments, raises) ==
    IF review_comments = <<>>
    THEN [called |-> FALSE, posted |-> <<>>, escaped |-> "none"]
    ELSE [called |-> TRUE,
          posted |-> IF raises THEN <<>> ELSE review_comments,
          escaped |-> Escaping(raises, "GithubException")]

\* The character cap of the diff context, lines 207 and 288.
DiffCap == 30000

Min(a, b) == IF a <= b THEN a ELSE b

\* Lines 211-212: nothing is edited.
NoEdit(current_body, diffs_len, summary) ==
    [context |-> Min(diffs_len, DiffCap),
     summary_text |-> summary.text,
     edit_called |-> FALSE,
     body |-> current_body,
     escaped |-> "none"]

\* Lines 228-231, merged being final_body or the exception of the merge.
EditBody(current_body, diffs_len, summary, merged, edit_raises) ==
    IF merged.exc # "none"
    THEN [NoEdit(current_body, diffs_len, summary)
              EXCEPT !.escaped = Escaping(TRUE, merged.exc)]
    ELSE [context |-> Min(diffs_len, DiffCap),
          summary_text |-> summary.text,
          edit_called |-> TRUE,
          body |-> IF edit_raises THEN current_body ELSE merged.body,
          escaped |-> Escaping(edit_raises, "GithubException")]

\* Lines 211-231, summary being what call_llm returned.
AfterSummaryCall(current_body, diffs_len, summary, edit_raises) ==
    IF summary.is_none \/ summary.text = <<>>
    THEN NoEdit(current_body, diffs_len, summary)
    ELSE EditBody(current_body, diffs_len, summary,
                  MergeDescription(current_body, NewSection(summary.text)),
                  edit_raises)

\* update_pr_description(client, pr, all_diffs_context); diffs_len is
\* len(all_diffs_context), outcome what the summary model call does,
\* edit_raises whether pr.edit raises.  context is the length of the slice
\* all_diffs_context[:30000] put into the prompt.
update_pr_description(current_body, diffs_len, outcome, edit_raises) ==
    AfterSummaryCall(current_body, diffs_len, call_llm(outcome), edit_raises)

\* send_discord_notification(pr, issue_count); webhook: Config.WEBHOOK_URL is
\* set, raises: requests.post raises.
send_discord_notification(webhook, issue_count, raises) ==
    IF ~webhook
    THEN [called |-> FALSE, count |-> 0, escaped |-> "none"]
    ELSE [called |-> TRUE, count |-> issue_count,
          escaped |-> Escaping(raises, "RequestException")]

(***************************************************************************)
(* The loop body of main, lines 282-289.                                   *)
(***************************************************************************)
\* len(f"\n\n--- File: {file.filename} ---\n")
FileHeaderLen(filename) == 2 + 10 + StrLen(filename) + 4 + 1

\* Lines 284-285.
ExtendComments(acc, new_comments) ==
    IF new_comments # <<>> THEN acc \o new_comments ELSE acc

\* Lines 288-289 without the test of the length, for comparison.
ExtendDiffsUngated(diffs_len, filename, new_patch) ==
    IF ~IsFalsyPatch(new_patch)
    THEN diffs_len + FileHeaderLen(filename) + PatchLen(new_patch)
    ELSE diffs_len

\* Lines 288-289, on the length of all_diffs_context.
ExtendDiffs(diffs_len, filename, new_patch) ==
    IF ~IsFalsyPatch(new_patch) /\ diffs_len < DiffCap
    THEN diffs_len + FileHeaderLen(filename) + PatchLen(new_patch)
    ELSE diffs_len

(***************************************************************************)
(* Inputs.                                                                 *)
(***************************************************************************)
HunkAt1 ==
    <<"@", "@", " ", "-", "1", ",", "2", " ", "+", "1", ",", "3", " ", "@", "@">>

HunkAt10 == <<"@", "@", " ", "-", "9", " ", "+", "1", "0", " ", "@", "@">>

HunkBad == <<"@", "@", " ", "x">>

CtxLine == <<" ", "x">>

AddLine == <<"+", "x">>

DelLine == <<"-", "x">>

NoNewlineLine == <<"\\", " ", "x">>

EmptyLine == <<>>

LongAddLine == <<"+", LongRun>>

FileOf(filename, status, patch) ==
    [filename |-> filename, status |-> status, patch |-> patch]

SmallPatch == PatchOf(<<HunkAt1, CtxLine, AddLine, CtxLine>>)

LongPatch == PatchOf(<<HunkAt10, LongAddLine, DelLine, CtxLine>>)

\* The changed files a pull request may list.
Files ==
    { FileOf(<<"a", ".", "p", "y">>, "modified", SmallPatch),
      FileOf(<<"b", ".", "p", "y">>, "modified", LongPatch),
      FileOf(<<"c", ".", "p", "y">>, "added", LongPatch),
      FileOf(<<"i", ".", "p", "n", "g">>, "modified", SmallPatch),
      FileOf(<<"r", ".", "p", "y">>, "removed", SmallPatch),
      FileOf(<<"n", ".", "p", "y">>, "modified", NoPatch) }

NoFile == FileOf(<<>>, "none", NoPatch)

Finding(line, message) ==
    JDict([line |-> line, message |-> JStr(<<message>>)])

FullFinding(line, message, category, severity) ==
    JDict([line |-> line, message |-> JStr(<<message>>),
           category |-> JStr(category), severity |-> JStr(<<severity>>)])

Fenced(text) == <<Fence, JsonTag, "\n">> \o text \o <<"\n", Fence>>

\* What the review model call may do for a file of main.
ReviewOutcomes ==
    { LlmRaises,
      LlmText(<<Word, " ", Word>>, JNull),
      LlmText(<<DocText>>, JList(<<>>)),
      LlmText(Fenced(<<DocText>>),
              JList(<<FullFinding(JInt(2), "m1", Issue, "Major"),
                      Finding(JInt(99), "m2"),
                      Finding(JInt(10), "m3")>>)),
      LlmText(<<DocText>>,
              JList(<<Finding(JInt(1), "m4"),
                      Finding(JNull, "m5"),
                      Finding(JInt(3), "m6")>>)),
      LlmText(<<DocText>>, Finding(JStr(<<"3">>), "m7")) }

RECURSIVE SeqsUpTo(_, _)
SeqsUpTo(S, n) ==
    IF n = 0 THEN {<<>>}
    ELSE LET shorter == SeqsUpTo(S, n - 1)
         IN shorter \cup {Append(s, x) : s \in shorter, x \in S}

\* The PR bodies and the summary replies of main.
MainBodies == {<<>>, <<"x", "y">>}

SummaryOutcomes ==
    { LlmRaises,
      LlmText(<<"x">>, JNull),
      LlmText(<<"x", "\\">>, JNull) }

(***************************************************************************)
(* State.                                                                  *)
(***************************************************************************)
VARIABLES
    pc,                 \* where the run is
    WEBHOOK_URL,        \* Config.WEBHOOK_URL is set
    pr_body,            \* pr.body
    processed,          \* the filenames pr.get_files() has yielded
    file,               \* main: the loop variable; analyze_file: its argument
    outcome,            \* what the model call of analyze_file does
    valid_lines,        \* get_valid_lines: its result
    comments,           \* analyze_file: the comments it returned
    patch,              \* analyze_file: the patch it returned; get_valid_lines: its argument
    diag,               \* analyze_file: the diagnostic it printed
    range_skips,        \* analyze_file: the lines it printed as outside the diff
    escaped,            \* the exception that left the last call, or "none"
    all_comments,       \* main
    all_diffs_context,  \* main: len(all_diffs_context)
    llm_calls,          \* the review model calls made
    called,             \* the collaborator calls of the later stages
    review_posted,      \* the comments of the review created
    prompt_context,     \* the length of the diff context in the summary prompt
    summary_text,       \* update_pr_description: the summary
    edit_log            \* the bodies pr.edit has set

vars ==
    <<pc, WEBHOOK_URL, pr_body, processed, file, outcome, valid_lines,
      comments, patch, diag, range_skips, escaped, all_comments, all_diffs_context,
      llm_calls, called, review_posted, prompt_context, summary_text,
      edit_log>>

fileVars ==
    <<file, outcome, valid_lines, comments, patch, diag, range_skips>>

mainVars ==
    <<WEBHOOK_URL, processed, all_comments, all_diffs_context, llm_calls,
      called, review_posted, prompt_context>>

mergeVars == <<pr_body, summary_text, edit_log>>

FileIdle ==
    /\ file = NoFile
    /\ outcome = LlmRaises
    /\ valid_lines = {}
    /\ comments = <<>>
    /\ patch = NoPatch
    /\ diag = "none"
    /\ range_skips = <<>>

MainIdle ==
    /\ processed = {}
    /\ all_comments = <<>>
    /\ all_diffs_context = 0
    /\ llm_calls = 0
    /\ called = {}
    /\ review_posted = <<>>
    /\ prompt_context = 0

MergeIdle ==
    /\ summary_text = <<>>
    /\ edit_log = <<>>

(***************************************************************************)
(* main.                                                                   *)
(***************************************************************************)
Init ==
    /\ pc = "collect"
    /\ WEBHOOK_URL \in BOOLEAN
    /\ pr_body \in MainBodies
    /\ escaped = "none"
    /\ FileIdle
    /\ MainIdle
    /\ MergeIdle

\* Lines 282-289, r being what analyze_file did.  An exception that leaves
\* analyze_file ends the run.
CollectResult(f, r) ==
    /\ file' = f
    /\ valid_lines' = IF IsFiltered(f) THEN {} ELSE get_valid_lines(f.patch)
    /\ comments' = r.comments
    /\ patch' = r.patch
    /\ diag' = r.diag
    /\ range_skips' = r.skips
    /\ escaped' = r.escaped
    /\ llm_calls' = llm_calls + r.calls
    /\ IF r.escaped # "none"
       THEN /\ pc' = "crashed"
            /\ UNCHANGED <<all_comments, all_diffs_context>>
       ELSE /\ pc' = pc
            /\ all_comments' = ExtendComments(all_comments, r.comments)
            /\ all_diffs_context' =
                   ExtendDiffs(all_diffs_context, f.filename, r.patch)

\* One iteration of "for file in pr.get_files()", lines 281-289.
CollectFile ==
    /\ pc = "collect"
    /\ Cardinality(processed) < MaxFiles
    /\ \E f \in Files, o \in ReviewOutcomes :
          /\ f.filename \notin processed
          /\ processed' = processed \cup {f.filename}
          /\ CollectResult(f, analyze_file(f, o))
    /\ UNCHANGED <<WEBHOOK_URL, pr_body, outcome, called, review_posted,
                   prompt_context, summary_text, edit_log>>

\* pr.get_files() is exhausted.
CollectDone ==
    /\ pc = "collect"
    /\ pc' = "publish"
    /\ UNCHANGED <<WEBHOOK_URL, processed, fileVars, escaped, all_comments,
                   all_diffs_context, llm_calls, called, review_posted,
                   prompt_context, mergeVars>>

PublishResult(r) ==
    /\ called' = IF r.called THEN called \cup {"create_review"} ELSE called
    /\ review_posted' = r.posted
    /\ escaped' = r.escaped
    /\ pc' = IF r.escaped # "none" THEN "crashed" ELSE "summarize"

\* Lines 292-295.
Publish ==
    /\ pc = "publish"
    /\ IF all_comments # <<>>
       THEN \E raises \in BOOLEAN :
               PublishResult(post_review_comments(all_comments, raises))
       ELSE /\ pc' = "summarize"
            /\ UNCHANGED <<called, review_posted, escaped>>
    /\ UNCHANGED <<WEBHOOK_URL, processed, fileVars, all_comments,
                   all_diffs_context, llm_calls, prompt_context, mergeVars>>

SummarizeResult(r) ==
    /\ called' = called \cup {"summary_llm"}
                    \cup (IF r.edit_called THEN {"edit"} ELSE {})
    /\ prompt_context' = r.context
    /\ summary_text' = r.summary_text
    /\ pr_body' = r.body
    /\ edit_log' = IF r.edit_called /\ r.body # pr_body
                   THEN Append(edit_log, [before |-> pr_body, after |-> r.body])
                   ELSE edit_log
    /\ escaped' = r.escaped
    /\ pc' = IF r.escaped # "none" THEN "crashed" ELSE "notify"

\* Lines 298-299.
Summarize ==
    /\ pc = "summarize"
    /\ IF all_diffs_context # 0
       THEN \E o \in SummaryOutcomes, edit_raises \in BOOLEAN :
               SummarizeResult(update_pr_description(
                   pr_body, all_diffs_context, o, edit_raises))
       ELSE /\ pc' = "notify"
            /\ UNCHANGED <<called, prompt_context, mergeVars, escaped>>
    /\ UNCHANGED <<WEBHOOK_URL, processed, fileVars, all_comments,
                   all_diffs_context, llm_calls, review_posted>>

NotifyResult(r) ==
    /\ called' = IF r.called THEN called \cup {"webhook"} ELSE called
    /\ escaped' = r.escaped
    /\ pc' = IF r.escaped # "none" THEN "crashed" ELSE "done"

\* Line 302.
Notify ==
    /\ pc = "notify"
    /\ \E raises \in BOOLEAN :
          NotifyResult(send_discord_notification(
              WEBHOOK_URL, Len(all_comments), raises))
    /\ UNCHANGED <<WEBHOOK_URL, processed, fileVars, all_comments,
                   all_diffs_context, llm_calls, review_posted,
                   prompt_context, mergeVars>>

Next == CollectFile \/ CollectDone \/ Publish \/ Summarize \/ Notify

Spec == Init /\ [][Next]_vars

\* main runs to its end: a statement that can be executed is executed.
SpecFair == Spec /\ WF_vars(Next)
(***************************************************************************)
(* get_valid_lines on its own: every patch of at most MaxPatchLines lines  *)
(* drawn from PatchLineKinds, and no patch.                                *)
(***************************************************************************)
PatchLineKinds ==
    {HunkAt1, HunkAt10, HunkBad, CtxLine, AddLine, DelLine, NoNewlineLine,
     EmptyLine}

Patches ==
    {NoPatch} \cup
        {PatchOf(ls) : ls \in SeqsUpTo(PatchLineKinds, MaxPatchLines) \ {<<>>}}

LinesInit ==
    /\ pc = "scan"
    /\ patch \in Patches
    /\ file = NoFile
    /\ outcome = LlmRaises
    /\ valid_lines = {}
    /\ comments = <<>>
    /\ diag = "none"
    /\ range_skips = <<>>
    /\ escaped = "none"
    /\ WEBHOOK_URL = FALSE
    /\ pr_body = <<>>
    /\ MainIdle
    /\ MergeIdle

ScanPatch ==
    /\ pc = "scan"
    /\ valid_lines' = get_valid_lines(patch)
    /\ pc' = "scanned"
    /\ UNCHANGED <<file, outcome, comments, patch, diag, range_skips, escaped,
                   mainVars, mergeVars>>

LinesNext == ScanPatch

SpecLines == LinesInit /\ [][LinesNext]_vars

(***************************************************************************)
(* analyze_file on its own: one file and every reply of the model built    *)
(* from the elements of ReplyItems.                                        *)
(***************************************************************************)
ReplyFiles ==
    { FileOf(<<"a", ".", "p", "y">>, "modified", SmallPatch),
      FileOf(<<"b", ".", "p", "y">>, "modified", LongPatch),
      FileOf(<<"i", ".", "p", "n", "g">>, "modified", SmallPatch) }

ReplyItems ==
    { FullFinding(JInt(2), "m1", Issue, "Major"),
      Finding(JInt(1), "m2"),
      Finding(JInt(99), "m3"),
      Finding(JStr(<<"3">>), "m4"),
      Finding(JStr(<<"x">>), "m5"),
      Finding(JNull, "m6"),
      JDict([message |-> JStr(<<"m7">>)]),
      JDict([line |-> JInt(2)]),
      JInt(7),
      JStr(<<"x">>),
      JList(<<JStr(KeyLine), JStr(KeyMessage)>>),
      Finding(JFloat(2), "m8"),
      Finding(JInf, "m9"),
      Finding(JList(<<JInt(2)>>), "m10"),
      Finding(JInt(10), "m11") }

ReplyValues ==
    {JList(items) : items \in SeqsUpTo(ReplyItems, MaxItems)}
        \cup ReplyItems \cup {JNull, JBool(1), JStr(KeyLine \o KeyMessage)}

ReplyTexts ==
    { <<DocText>>,
      Fenced(<<DocText>>),
      <<Fence, "\n", DocText, "\n", Fence>>,
      <<Fence, Word, "\n", DocText, "\n", Fence>>,
      <<Word, " ", DocText>> }

ReplyOutcomes ==
    {LlmText(t, v) : t \in ReplyTexts, v \in ReplyValues}
        \cup { LlmRaises, LlmNone, LlmText(<<>>, JNull),
               LlmText(<<" ">>, JNull), LlmText(<<Word>>, JNull),
               LlmText(<<Fence>>, JNull) }

AnalyzeInit ==
    /\ pc = "analyze"
    /\ file \in ReplyFiles
    /\ outcome \in ReplyOutcomes
    /\ valid_lines = {}
    /\ comments = <<>>
    /\ patch = NoPatch
    /\ diag = "none"
    /\ range_skips = <<>>
    /\ escaped = "none"
    /\ WEBHOOK_URL = FALSE
    /\ pr_body = <<>>
    /\ MainIdle
    /\ MergeIdle

AnalyzeResult(r) ==
    /\ valid_lines' = IF IsFiltered(file) THEN {}
                      ELSE get_valid_lines(file.patch)
    /\ comments' = r.comments
    /\ patch' = r.patch
    /\ diag' = r.diag
    /\ range_skips' = r.skips
    /\ escaped' = r.escaped
    /\ llm_calls' = llm_calls + r.calls
    /\ pc' = IF r.escaped # "none" THEN "crashed" ELSE "analyzed"

AnalyzeOne ==
    /\ pc = "analyze"
    /\ AnalyzeResult(analyze_file(file, outcome))
    /\ UNCHANGED <<file, outcome, WEBHOOK_URL, processed, all_comments,
                   all_diffs_context, called, review_posted, prompt_context,
                   mergeVars>>

AnalyzeNext == AnalyzeOne

SpecAnalyze == AnalyzeInit /\ [][AnalyzeNext]_vars

(***************************************************************************)
(* update_pr_description run again and again on the same pull request,     *)
(* the model giving the same summary each time.  edit_log holds, for each  *)
(* pr.edit, the body before and the body set.                              *)
(***************************************************************************)
BodyChars == {"x", "y"}

SummaryChars == {"x", "n", "\\"}

Bodies == SeqsUpTo(BodyChars, MaxDocLen)

Summaries == SeqsUpTo(SummaryChars, MaxSummaryLen)

MergeInit ==
    /\ pc = "merge"
    /\ pr_body \in Bodies
    /\ summary_text \in Summaries
    /\ edit_log = <<>>
    /\ escaped = "none"
    /\ WEBHOOK_URL = FALSE
    /\ FileIdle
    /\ MainIdle

MergeResult(r) ==
    /\ r.edit_called
    /\ pr_body' = r.body
    /\ edit_log' = Append(edit_log, [before |-> pr_body, after |-> r.body])
    /\ escaped' = r.escaped

MergeRun ==
    /\ pc = "merge"
    /\ Len(edit_log) < MaxRuns
    /\ MergeResult(update_pr_description(pr_body, 1,
                                         LlmText(summary_text, JNull), FALSE))
    /\ UNCHANGED <<pc, summary_text, WEBHOOK_URL, fileVars, mainVars>>

MergeNext == MergeRun

SpecMerge == MergeInit /\ [][MergeNext]_vars


(***************************************************************************)
(* The properties.                                                         *)
(***************************************************************************)
\* The file of Files with the given name.
FileNamed(path) == CHOOSE f \in Files : f.filename = path

\* C1: a response element whose integer line is not in the file's
\* ValidLineSet never produces a comment: the lines analyze_file reported as
\* outside the diff are not in the set and carry no comment, and every entry
\* of all_comments, after any sequence of analyze_file calls in main, has a
\* line in the ValidLineSet of the file named in its path.
C1_OnlyValidLines ==
    /\ \A i \in 1..Len(range_skips) :
          /\ range_skips[i] \notin valid_lines
          /\ \A j \in 1..Len(comments) : comments[j].line # range_skips[i]
    /\ \A j \in 1..Len(comments) :
          comments[j].path = file.filename /\ comments[j].line \in valid_lines
    /\ \A i \in 1..Len(all_comments) :
          /\ \E f \in Files : f.filename = all_comments[i].path
          /\ all_comments[i].line
                 \in get_valid_lines(FileNamed(all_comments[i].path).patch)

\* A response with an element inside and an element outside the diff was
\* validated and its comment collected.
C1_Witness ==
    /\ range_skips # <<>>
    /\ comments # <<>>
    /\ Len(all_comments) > Len(comments)

\* C2: the description merge is idempotent: with the same summary, the body
\* the second merge sets equals the body the first merge set.
C2_MergeIdempotent ==
    Len(edit_log) >= 2 => edit_log[2].after = edit_log[1].after

\* The offset (0-based) of the first occurrence of p in s at or after offset
\* from, or -1.
FirstAt(s, p, from) ==
    LET hits == {i \in from..(Len(s) - Len(p)) : StartsWithAt(s, p, i + 1)}
    IN IF hits = {} THEN -1
       ELSE CHOOSE i \in hits : \A j \in hits : i <= j

\* The merge C3 describes: the span from the first start marker through the
\* first end marker after it is replaced by the section, the rest is kept;
\* without such a pair the section and a blank line come before the body.
C3_Expected(doc, section) ==
    LET b == FirstAt(doc, marker_start, 0)
        e == IF b = -1 THEN -1
             ELSE FirstAt(doc, marker_end, b + Len(marker_start))
    IN IF b # -1 /\ e # -1
       THEN SubSeq(doc, 1, b) \o section
                \o SubSeq(doc, e + Len(marker_end) + 1, Len(doc))
       ELSE section \o <<"\n", "\n">> \o doc

\* C3: the merge changes only the one managed region: the body set is the
\* body before with the first marked span replaced by the new section, or
\* the new section, a blank line and the body before.
C3_OnlyManagedRegion ==
    \A i \in 1..Len(edit_log) :
        edit_log[i].after =
            C3_Expected(edit_log[i].before, NewSection(summary_text))

\* The diagnostics of a file whose model call failed or whose reply was
\* malformed.
C4_Failed == {"llm_failed", "empty", "json_failed", "error"}

\* C4: a file whose model call fails or returns malformed output adds
\* nothing to all_comments, and the loop goes on to the next file.
C4_FailureIsolation ==
    [][processed' # processed =>
          /\ pc' = "collect"
          /\ (diag' \in C4_Failed => all_comments' = all_comments)]_vars

\* C5: once Collect has finished, whatever the review submission, the
\* summary model call, the description edit and the webhook POST do, no
\* exception leaves a stage, the review is submitted when there are
\* comments, the summary is attempted when the diff context is not empty,
\* the webhook is attempted when it is configured, and the run reaches its
\* end.
C5_StageIsolation ==
    /\ [](pc # "crashed" /\ escaped = "none")
    /\ [](pc \in {"summarize", "notify", "done"} =>
              ("create_review" \in called <=> all_comments # <<>>))
    /\ [](pc \in {"notify", "done"} =>
              ("summary_llm" \in called <=> all_diffs_context # 0))
    /\ [](pc = "done" => ("webhook" \in called <=> WEBHOOK_URL))
    /\ <>(pc = "done")

\* The run ended after the review submission and the summary both failed,
\* and the webhook was still attempted.
C5_Witness ==
    /\ pc = "done"
    /\ "create_review" \in called
    /\ review_posted = <<>>
    /\ "summary_llm" \in called
    /\ "edit" \notin called
    /\ "webhook" \in called

\* C6: for every response text no exception leaves analyze_file, and it
\* returns a list of comments.
C6_ValidatorTotal ==
    /\ escaped = "none"
    /\ pc # "crashed"
    /\ pc = "analyzed" =>
           \A j \in 1..Len(comments) : comments[j].path = file.filename

\* analyze_file returned after an exception in the loop over the elements.
C6_Witness ==
    /\ pc = "analyzed"
    /\ diag = "error"
    /\ escaped = "none"

\* An element C7 keeps: an object with a message and a line that int()
\* accepts and that is in the ValidLineSet.
C7_Coercible(v) ==
    \/ v.k \in {"int", "float", "bool"}
    \/ v.k = "str" /\ IntOfStr(v.s).exc = "none"

C7_LineOf(v) == IF v.k = "str" THEN IntOfStr(v.s).n ELSE v.n

C7_Keeps(item, valid) ==
    /\ item.k = "dict"
    /\ {"line", "message"} \subseteq DOMAIN item.fields
    /\ C7_Coercible(item.fields.line)
    /\ C7_LineOf(item.fields.line) \in valid

\* The comments C7 describes: those of the kept elements, in their order.
RECURSIVE C7_Expected(_, _, _)
C7_Expected(items, valid, filename) ==
    IF items = <<>> THEN <<>>
    ELSE IF C7_Keeps(Head(items), valid)
         THEN <<FormatComment(Head(items),
                              C7_LineOf(Head(items).fields.line), filename)>>
                  \o C7_Expected(Tail(items), valid, filename)
         ELSE C7_Expected(Tail(items), valid, filename)

\* C7: for a reply parsed to a JSON list, the comments returned are exactly
\* those of the elements with a message and an integer-coercible line in the
\* ValidLineSet, in their order, whatever the other elements are.
C7_DropsOnlyItself ==
    (/\ pc = "analyzed"
     /\ diag \in {"ok", "error"}
     /\ outcome.value.k = "list")
        => comments = C7_Expected(outcome.value.items, valid_lines,
                                  file.filename)

\* The scan C8 describes: a line gets a number only after a hunk header
\* gave the cursor a value.
C8_ScanLine(st, line) ==
    IF StartsWith(line, <<"@", "@">>)
    THEN IF PlusDigitsAt(line) # 0
         THEN [st EXCEPT !.in_hunk = TRUE, !.cursor = HunkStart(line)]
         ELSE st
    ELSE IF st.in_hunk /\ (StartsWith(line, <<" ">>) \/ StartsWith(line, <<"+">>))
         THEN [st EXCEPT !.numbers = st.numbers \cup {st.cursor},
                         !.cursor = st.cursor + 1]
         ELSE st

RECURSIVE C8_Scan(_, _)
C8_Scan(st, lines) ==
    IF lines = <<>> THEN st
    ELSE C8_Scan(C8_ScanLine(st, Head(lines)), Tail(lines))

C8_Expected(p) ==
    IF ~p.present THEN {}
    ELSE C8_Scan([in_hunk |-> FALSE, cursor |-> 0, numbers |-> {}],
                 p.lines).numbers

\* C8: for every patch text get_valid_lines returns exactly the numbers of
\* the context and added lines, counted from the start the hunk header
\* gives; removed lines, markers and unprefixed lines add nothing, and no
\* number belongs to a line outside any hunk.
C8_ExactLineNumbers ==
    pc = "scanned" => valid_lines = C8_Expected(patch)

\* A file analyze_file is to skip, as C9 lists them.
C9_Skipped(f) ==
    \/ f.status = "removed"
    \/ f.patch = NoPatch
    \/ \E i \in 1..Len(IGNORED_EXTENSIONS) :
          /\ Len(f.filename) >= Len(IGNORED_EXTENSIONS[i])
          /\ SubSeq(f.filename,
                    Len(f.filename) - Len(IGNORED_EXTENSIONS[i]) + 1,
                    Len(f.filename)) = IGNORED_EXTENSIONS[i]

\* C9: a skipped file (removed, without patch, or with an ignored
\* extension) gets no model call and returns no comments and no patch; every
\* other file gets exactly one model call, so the review model calls of the
\* Collect stage are as many as the files not skipped.
C9_OneCallPerFile ==
    /\ llm_calls =
           Cardinality({f \in Files :
                           f.filename \in processed /\ ~C9_Skipped(f)})
    /\ (file # NoFile /\ C9_Skipped(file)) =>
           /\ comments = <<>>
           /\ patch = NoPatch
           /\ diag = "skipped"
    /\ (file # NoFile /\ ~C9_Skipped(file)) => diag # "skipped"

\* A file with an ignored extension was skipped after another file had its
\* model call.
C9_Witness ==
    /\ file # NoFile
    /\ file.status # "removed"
    /\ file.patch # NoPatch
    /\ C9_Skipped(file)
    /\ llm_calls > 0

=============================================================================
